---------------------------- MODULE Spec2Model ----------------------------
(***************************************************************************)
(* Model of the JADBio Python client: the response envelope parsing of     *)
(* jadbio/client.py and the wait-for-completion loops of jadbio/task.py    *)
(* and of the examples (helper.py, image_upload1.py, image_upload2.py,     *)
(* example.py), the session state of JadbioClient (login, logout, the      *)
(* token each request carries) and the image ingestion flow of the         *)
(* examples (init, add_sample, commit, wait).                              *)
(*                                                                         *)
(* A transport response is the value the requests library hands to the     *)
(* client: its status code, its raw content and its body as resp.json()    *)
(* decodes it.  The decoded body is a dictionary: `has` is the set of keys *)
(* it holds, a key that is not in `has` has no value.                      *)
(***************************************************************************)
EXTENDS Integers, Sequences, FiniteSets

VARIABLES
    scenario,   \* which piece of the program this behaviour runs
    resp,       \* the transport response handed to __parse_response__
    where,      \* the label of the calling operation
    outcome,    \* what the call did: returned a payload or raised
    loop,       \* the wait loop that runs
    pc,         \* the position of the wait loop
    now,        \* time.time(), in seconds
    start,      \* helper.upload_dataset: start
    timeout,    \* helper.upload_dataset: the timeout in force
    supplied,   \* whether the caller passed timeout
    status,     \* the object the last status query gave the loop
    polls,      \* status queries sent so far
    sleeps,     \* time.sleep calls made so far
    result,     \* the value the loop returned
    raised,     \* the exception that ended the loop
    firstFin,   \* history: index of the first poll answered with the finished state
    firstErr,   \* history: index of the first poll answered with the error state
    lastLat,    \* history: latency of the last status query
    failures,   \* history: status queries of the loop that raised
    cls,        \* the class attributes of JadbioClient
    inst,       \* the instance attributes of each client object
    sessions,   \* the requests.Session objects created so far
    lastCall,   \* history: the last client operation and the request it sent
    lastLogin,  \* history: per client, the token of its last successful login
    ing,        \* the image ingestion flow: position, counters, task id
    received,   \* the sample keys the server received for the task
    call,       \* one client operation applied to one response, and its result
    ds          \* the dataset creation flow of upload_dataset: position, requests

vars == <<scenario, resp, where, outcome, loop, pc, now, start, timeout,
          supplied, status, polls, sleeps, result, raised, firstFin,
          firstErr, lastLat, failures, cls, inst, sessions, lastCall,
          lastLogin, ing, received, call, ds>>

envVars == <<resp, where, outcome>>
waitVars == <<loop, pc, now, start, timeout, supplied, status, polls, sleeps,
              result, raised, firstFin, firstErr, lastLat, failures>>
sessVars == <<cls, inst, sessions, lastCall, lastLogin>>
ingVars == <<ing, received>>
opVars == <<call, ds>>

---------------------------------------------------------------------------
(* JSON values and task status objects                                     *)

\* The states a status endpoint reports, in both spellings the endpoint
\* families use.
TaskStates == {"running", "finished", "error", "FINISHED", "ERROR"}

DatasetIds == {"6065", "6066"}

\* str.upper() on the state strings.
Upper(s) ==
    CASE s = "running"  -> "RUNNING"
      [] s = "finished" -> "FINISHED"
      [] s = "error"    -> "ERROR"
      [] OTHER          -> s

\* A payload object.  task/{id}/status of the public API answers
\* {state, datasetId}, data_array/get_task_state answers {state, did}; the
\* result reference is there once the task has finished.  login answers
\* {token} and image/initUpload {taskId}.  "" stands for no such key.
NoRef == ""

IsFinished(s) == Upper(s) = "FINISHED"

ClientStatusObjects ==
    { [state |-> s, datasetId |-> d, did |-> NoRef, token |-> "", taskId |-> ""] :
        s \in TaskStates, d \in DatasetIds \cup {NoRef} }

RawStatusObjects ==
    { [state |-> s, datasetId |-> NoRef, did |-> d, token |-> "", taskId |-> ""] :
        s \in TaskStates, d \in DatasetIds \cup {NoRef} }

\* The status objects a server sends: the reference comes with the finished
\* state and only with it.
WellFormed(o) == IsFinished(o.state) <=> (o.datasetId # NoRef \/ o.did # NoRef)

NoPayload == [state |-> "", datasetId |-> NoRef, did |-> NoRef, token |-> "", taskId |-> ""]

\* A JSON scalar met in an error body: a string, or a number.
JsonScalars == {[t |-> "str", v |-> "not allowed"], [t |-> "int", v |-> "403"]}

NoScalar == [t |-> "none", v |-> ""]

---------------------------------------------------------------------------
(* Transport responses                                                     *)

StatusCodes == {200, 201, 204, 400, 401, 404, 500}

Contents == {"", "Bad Gateway"}

BodyKeys == {"status", "payload", "message", "code"}

EnvelopeStatuses == {"success", "error", "failed"}

Payloads == { [NoPayload EXCEPT !.state = "running"],
              [NoPayload EXCEPT !.state = "finished", !.datasetId = "6065"] }

\* Every decoded body: any set of keys, any value under each key that is
\* present.
Bodies ==
    { [has |-> h,
       status |-> IF "status" \in h THEN s ELSE "",
       payload |-> IF "payload" \in h THEN p ELSE NoPayload,
       message |-> IF "message" \in h THEN m ELSE NoScalar,
       code |-> IF "code" \in h THEN c ELSE NoScalar] :
         h \in SUBSET BodyKeys, s \in EnvelopeStatuses, p \in Payloads,
         m \in JsonScalars, c \in JsonScalars }

Responses ==
    { [status_code |-> sc, content |-> ct, body |-> b] :
        sc \in StatusCodes, ct \in Contents, b \in Bodies }

Labels == {"Login", "Get task"}

\* The bodies of a success envelope and of an error envelope.
SuccessBody(p) ==
    [has |-> {"status", "payload"}, status |-> "success", payload |-> p,
     message |-> NoScalar, code |-> NoScalar]

ErrorBody ==
    [has |-> {"status", "message"}, status |-> "error", payload |-> NoPayload,
     message |-> [t |-> "str", v |-> "not allowed"], code |-> NoScalar]

IdleResponse == [status_code |-> 200, content |-> "", body |-> SuccessBody(NoPayload)]


---------------------------------------------------------------------------
(* jadbio/client.py: the two exceptions and __parse_response__             *)

\* What a call does: kind "return" with the payload, or the name of the
\* exception it raises with the exception's message (a sequence of the
\* pieces the code concatenates).
Returned(p) == [kind |-> "return", payload |-> p, message |-> <<>>]

Raise(kind, msg) == [kind |-> kind, payload |-> NoPayload, message |-> msg]

\* JadRequestResponseError.__init__: message = where + ': ', plus
\* resp['message'] and ', code: ' + resp['code'] for the keys present.
\* str + a value that is no str is a TypeError.
JadRequestResponseError(res, wh) ==
    LET m0 == <<wh, ": ">>
        badMessage == "message" \in res.has /\ res.message.t # "str"
        m1 == IF "message" \in res.has THEN m0 \o <<res.message.v>> ELSE m0
        badCode == "code" \in res.has /\ res.code.t # "str"
        m2 == IF "code" \in res.has THEN m1 \o <<", code: ", res.code.v>> ELSE m1
    IN  IF badMessage THEN Raise("TypeError", <<>>)
        ELSE IF badCode THEN Raise("TypeError", <<>>)
        ELSE Raise("JadRequestResponseError", m2)

\* __request_failed__: raise RequestFailed(where + ": " + str(res)
\*                                         + ', message: ' + content).
RequestFailed(res, wh) ==
    Raise("RequestFailed",
          <<wh, ": ", "<Response [", res.status_code, "]>", ", message: ", res.content>>)

\* Mutant of the transport test: every 2xx code passes.
TransportFailedNon2xx(r) == r.status_code \notin 200 .. 299

\* The transport test of __parse_response__: resp.status_code != 200.
TransportFailed(r) == r.status_code # 200

\* __parse_response__(resp, where).  res['status'] and res['payload'] on a
\* body without the key are a KeyError.
ParseResponse(r, wh) ==
    IF TransportFailed(r) THEN RequestFailed(r, wh)
    ELSE LET res == r.body IN
         IF "status" \notin res.has THEN Raise("KeyError", <<"status">>)
         ELSE IF res.status # "success" THEN JadRequestResponseError(res, wh)
         ELSE IF "payload" \notin res.has THEN Raise("KeyError", <<"payload">>)
         ELSE Returned(res.payload)

NoOutcome == [kind |-> "none", payload |-> NoPayload, message |-> <<>>]

---------------------------------------------------------------------------
(* jadbio/client.py: the session state of JadbioClient                     *)

Clients == {"a", "b"}

Tokens == {"T1", "T2"}

\* Bounds of the model: the requests.Session objects one behaviour creates.
MaxSessions == 3

\* The value of __token: None, or the dictionary
\* {'Authorization': ' '.join(['Bearer', token])}.
TokenNone == [none |-> TRUE, Authorization |-> <<>>]

TokenDict(t) == [none |-> FALSE, Authorization |-> <<"Bearer", " ", t>>]

\* __session: 0 stands for None, a positive number names a Session object.
NoSession == 0

\* The class attributes: __session = None, __token = None.
ClassAttributes == [token |-> TokenNone, session |-> NoSession]

\* A client object before __init__ has run: no instance attribute.
Unborn == [alive |-> "unborn", own |-> {}, token |-> TokenNone, session |-> NoSession]

\* Attribute lookup self.__token, self.__session: the instance attribute
\* when the instance has one, the class attribute otherwise.
TokenOf(in, cl, c) == IF "token" \in in[c].own THEN in[c].token ELSE cl.token

SessionOf(in, cl, c) == IF "session" \in in[c].own THEN in[c].session ELSE cl.session

GetToken(c) == TokenOf(inst, cls, c)

GetSession(c) == SessionOf(inst, cls, c)

\* Mutant of the assignment: the attribute is set on the class
\* (JadbioClient.__token = ...), not on the instance.
AssignToClass(st, c, name, v) ==
    [st EXCEPT !.cls = IF name = "token" THEN [@ EXCEPT !.token = v]
                       ELSE [@ EXCEPT !.session = v]]

\* The assignments self.__token = v and self.__session = v: they set the
\* attribute of the instance.  st is the pair of instance and class
\* attributes.
Assign(st, c, name, v) ==
    [st EXCEPT !.inst[c] =
        IF name = "token"
        THEN [@ EXCEPT !.own = @ \cup {"token"}, !.token = v]
        ELSE [@ EXCEPT !.own = @ \cup {"session"}, !.session = v]]

\* A Session object: whether it holds connections, and the client whose
\* login created it.
UnusedSession == [state |-> "unused", owner |-> ""]

\* Session() makes a new object: the first number that names none yet.
FreshSessions ==
    {i \in 1 .. MaxSessions :
        /\ sessions[i].state = "unused"
        /\ \A j \in 1 .. i - 1 : sessions[j].state # "unused"}

\* What the server answers to login: a token, a success without a token,
\* an API error, a transport failure; the failures may carry a token too.
TokenPayload(t) == [NoPayload EXCEPT !.token = t]

LoginResponses ==
    { [status_code |-> 200, content |-> "", body |-> SuccessBody(TokenPayload(t))] :
        t \in Tokens \cup {""} }
    \cup { [status_code |-> 200, content |-> "",
            body |-> [ErrorBody EXCEPT !.has = @ \cup {"payload"},
                                       !.payload = TokenPayload("T2")]],
           [status_code |-> 200, content |-> "",
            body |-> [ErrorBody EXCEPT !.message = [t |-> "int", v |-> "403"]]],
           [status_code |-> 401, content |-> "", body |-> SuccessBody(TokenPayload("T2"))],
           [status_code |-> 500, content |-> "Bad Gateway", body |-> ErrorBody] }

\* What the server answers to another operation.
ApiResponses ==
    { [status_code |-> 200, content |-> "", body |-> SuccessBody(NoPayload)],
      [status_code |-> 200, content |-> "", body |-> ErrorBody],
      [status_code |-> 401, content |-> "", body |-> ErrorBody] }

\* A response that reports success at both levels.
Accepted(r) == r.status_code = 200 /\ "status" \in r.body.has /\ r.body.status = "success"

\* The record of a client operation: the request it sent (sent is how many,
\* headers the headers argument, via the Session used), how it ended, and
\* the token and the session it found, whether a close() of a teardown
\* failed and whether the client's call before it was a login that raised.
NoCall ==
    [client |-> "", op |-> "none", sent |-> 0, headers |-> TokenNone,
     via |-> NoSession, kind |-> "none", accepted |-> FALSE,
     tokenBefore |-> TokenNone, wasClosed |-> FALSE,
     sessionBefore |-> NoSession, closeFailed |-> FALSE,
     afterFailedLogin |-> FALSE]

Call(c, op, n, h, via, kind, acc) ==
    [client |-> c, op |-> op, sent |-> n, headers |-> h, via |-> via,
     kind |-> kind, accepted |-> acc, tokenBefore |-> GetToken(c),
     wasClosed |-> IF GetSession(c) = NoSession THEN FALSE
                   ELSE sessions[GetSession(c)].state = "closed",
     sessionBefore |-> GetSession(c), closeFailed |-> FALSE,
     afterFailedLogin |-> (lastCall.client = c /\ lastCall.op = "login"
                              /\ lastCall.kind # "return")]

\* The ingestion flow before it starts.  pc is the position in the script,
\* classes the entries of the data folder, n the samples to add, i the
\* add_sample calls that returned, task the task id of init; inits, adds
\* and commits count the requests sent; failedAt is the step that raised
\* and labelFile the temporary label file of upload_type2.
\* folder is the data folder of upload_type2, the image files of each of
\* its entries by their stem; classDict and samplePathDict are the
\* dictionaries upload_type2 builds from it, in insertion order.
NoFolder == [c \in {} |-> {}]

NoIngest ==
    [pc |-> "idle", flow |-> "none", classes |-> 0, n |-> 0, i |-> 0,
     task |-> "", inits |-> 0, adds |-> 0, commits |-> 0,
     raised |-> "none", failedAt |-> "none", labelFile |-> "none",
     folder |-> NoFolder, classDict |-> <<>>, samplePathDict |-> <<>>]

IdleIngest ==
    /\ ing = NoIngest /\ received = <<>>

\* No single operation has been called and no dataset flow runs.
\* An id as JSON carries it or as Python holds it: an int n or a str s.
NoId == [t |-> "none", n |-> 0, s |-> ""]

\* op is the operation, arg its id argument, kind how it ended, value the
\* id it returned and text the text it returned.
NoOperation ==
    [op |-> "none", arg |-> NoId, kind |-> "none", value |-> NoId, text |-> <<>>]

\* The dataset flow before it starts.  uploads and creates count the
\* requests sent, uploadId and createId are the file ids in their URLs,
\* fileId is what upload_file returned and tid what create_dataset
\* returned.
NoDataset ==
    [pc |-> "idle", uploads |-> 0, creates |-> 0, uploadId |-> NoId,
     fileId |-> NoId, createId |-> NoId, tid |-> NoId, raised |-> "none"]

IdleOperation ==
    /\ call = NoOperation /\ ds = NoDataset

IdleSession ==
    /\ cls = ClassAttributes
    /\ inst = [c \in Clients |-> Unborn]
    /\ sessions = [i \in 1 .. MaxSessions |-> UnusedSession]
    /\ lastCall = NoCall
    /\ lastLogin = [c \in Clients |-> ""]

\* Mutant of login: a login that raises puts the session back that the
\* client had before.
LoginCallRollsBack(st, c, r, sid) ==
    LET st1 == Assign(st, c, "session", sid)
        o == ParseResponse(r, "Login")
    IN  IF o.kind # "return" THEN [st |-> st, kind |-> o.kind, token |-> ""]
        ELSE IF o.payload.token = "" THEN [st |-> st, kind |-> "KeyError", token |-> ""]
        ELSE [st |-> Assign(st1, c, "token", TokenDict(o.payload.token)),
              kind |-> "return", token |-> o.payload.token]

\* Mutant of login: the token of the response body is stored before the
\* response is checked.
LoginCallStoresFirst(st, c, r, sid) ==
    LET st1 == Assign(st, c, "session", sid)
        st2 == IF r.body.payload.token # ""
               THEN Assign(st1, c, "token", TokenDict(r.body.payload.token))
               ELSE st1
        o == ParseResponse(r, "Login")
    IN  IF o.kind # "return" THEN [st |-> st2, kind |-> o.kind, token |-> ""]
        ELSE IF o.payload.token = "" THEN [st |-> st2, kind |-> "KeyError", token |-> ""]
        ELSE [st |-> st2, kind |-> "return", token |-> o.payload.token]

\* login(username, password) on client c, answered by r, with sid the new
\* Session: self.__session = Session(); res = self.__session.post(url,
\* json=loginRequest); login = __parse_response__(res, 'Login');
\* self.__token = {'Authorization': ' '.join(['Bearer', login['token']])}.
\* The result is the instance and class attributes after the call and the
\* way the call ended.
LoginCall(st, c, r, sid) ==
    LET st1 == Assign(st, c, "session", sid)
        o == ParseResponse(r, "Login")
    IN  IF o.kind # "return" THEN [st |-> st1, kind |-> o.kind, token |-> ""]
        ELSE IF o.payload.token = "" THEN [st |-> st1, kind |-> "KeyError", token |-> ""]
        ELSE [st |-> Assign(st1, c, "token", TokenDict(o.payload.token)),
              kind |-> "return", token |-> o.payload.token]

\* JadbioClient(username, password): __init__ sets __base_url, sets
\* __session to None and calls login; when login raises, so does the
\* constructor and the caller gets no client.
Construct(c) ==
    /\ scenario = "session"
    /\ inst[c].alive = "unborn"
    /\ \E r \in LoginResponses, sid \in FreshSessions :
        LET st0 == Assign([inst |-> inst, cls |-> cls], c, "session", NoSession)
            l == LoginCall(st0, c, r, sid)
        IN  /\ inst' = [l.st.inst EXCEPT ![c].alive =
                            IF l.kind = "return" THEN "alive" ELSE "failed"]
            /\ cls' = l.st.cls
            /\ sessions' = [sessions EXCEPT ![sid] = [state |-> "open", owner |-> c]]
            /\ lastCall' = Call(c, "construct", 1, TokenNone, sid, l.kind, Accepted(r))
            /\ lastLogin' = IF l.kind = "return"
                            THEN [lastLogin EXCEPT ![c] = l.token] ELSE lastLogin
    /\ UNCHANGED <<scenario, envVars, opVars, waitVars, ingVars>>

\* client.login(username, password) on a constructed client.
Login(c) ==
    /\ scenario = "session"
    /\ inst[c].alive = "alive"
    /\ \E r \in LoginResponses, sid \in FreshSessions :
        LET l == LoginCall([inst |-> inst, cls |-> cls], c, r, sid)
        IN  /\ inst' = l.st.inst
            /\ cls' = l.st.cls
            /\ sessions' = [sessions EXCEPT ![sid] = [state |-> "open", owner |-> c]]
            /\ lastCall' = Call(c, "login", 1, TokenNone, sid, l.kind, Accepted(r))
            /\ lastLogin' = IF l.kind = "return"
                            THEN [lastLogin EXCEPT ![c] = l.token] ELSE lastLogin
    /\ UNCHANGED <<scenario, envVars, opVars, waitVars, ingVars>>

\* Mutant of logout: closing a session that is closed already raises, and
\* the token stays.
LogoutRaisesWhenClosed(c) ==
    /\ scenario = "session"
    /\ inst[c].alive = "alive"
    /\ LET sid == GetSession(c) IN
        IF sid = NoSession \/ sessions[sid].state = "closed"
        THEN /\ lastCall' = Call(c, "logout", 0, TokenNone, NoSession, "AttributeError", FALSE)
             /\ UNCHANGED <<inst, cls, sessions>>
        ELSE /\ sessions' = [sessions EXCEPT ![sid].state = "closed"]
             /\ LET st == Assign([inst |-> inst, cls |-> cls], c, "token", TokenNone)
                IN  inst' = st.inst /\ cls' = st.cls
             /\ lastCall' = Call(c, "logout", 0, TokenNone, NoSession, "return", FALSE)
    /\ UNCHANGED <<lastLogin, scenario, envVars, opVars, waitVars, ingVars>>

\* logout(): self.__session.close(); self.__token = None.  Session.close()
\* on a closed Session closes nothing and does not raise; None has no
\* close().
Logout(c) ==
    /\ scenario = "session"
    /\ inst[c].alive = "alive"
    /\ LET sid == GetSession(c) IN
        IF sid = NoSession
        THEN /\ lastCall' = Call(c, "logout", 0, TokenNone, NoSession, "AttributeError", FALSE)
             /\ UNCHANGED <<inst, cls, sessions>>
        ELSE /\ sessions' = [sessions EXCEPT ![sid].state = "closed"]
             /\ LET st == Assign([inst |-> inst, cls |-> cls], c, "token", TokenNone)
                IN  inst' = st.inst /\ cls' = st.cls
             /\ lastCall' = Call(c, "logout", 0, TokenNone, NoSession, "return", FALSE)
    /\ UNCHANGED <<lastLogin, scenario, envVars, opVars, waitVars, ingVars>>

\* The ways the two close() calls of a teardown can go: the first is the
\* one of __del__, the second the one of the logout that __del__ calls.
CloseOutcomes == {"closed", "first fails", "second fails"}

\* Mutant of __del__: no except clause, so a close() that fails raises out
\* of the teardown.
DelPropagates(c) ==
    /\ scenario = "session"
    /\ inst[c].alive \in {"alive", "failed"}
    /\ \E how \in CloseOutcomes :
        LET sid == GetSession(c)
            teardown == [Call(c, "__del__", 0, TokenNone, NoSession, "return", FALSE)
                            EXCEPT !.closeFailed = (how # "closed")]
        IN  IF sid = NoSession \/ how = "first fails"
            THEN /\ lastCall' = [teardown EXCEPT !.kind = "ConnectionError"]
                 /\ inst' = [inst EXCEPT ![c].alive = "dead"]
                 /\ UNCHANGED <<cls, sessions>>
            ELSE /\ sessions' = [sessions EXCEPT ![sid].state = "closed"]
                 /\ LET st == IF how = "closed"
                              THEN Assign([inst |-> inst, cls |-> cls], c, "token", TokenNone)
                              ELSE [inst |-> inst, cls |-> cls]
                    IN  /\ inst' = [st.inst EXCEPT ![c].alive = "dead"]
                        /\ cls' = st.cls
                 /\ lastCall' = [teardown EXCEPT !.kind =
                                    IF how = "closed" THEN "return" ELSE "ConnectionError"]
    /\ UNCHANGED <<lastLogin, scenario, envVars, opVars, waitVars, ingVars>>

\* __del__, run when a client object is collected, also one whose
\* constructor raised: try: self.__session.close(); self.logout()
\* except: pass.  A close() that raises (or None, which has no close())
\* ends the try block: what follows it in the block is not run, and the
\* exception goes no further.
Del(c) ==
    /\ scenario = "session"
    /\ inst[c].alive \in {"alive", "failed"}
    /\ \E how \in CloseOutcomes :
        LET sid == GetSession(c)
            teardown == [Call(c, "__del__", 0, TokenNone, NoSession, "return", FALSE)
                            EXCEPT !.closeFailed = (how # "closed")]
        IN  IF sid = NoSession \/ how = "first fails"
            THEN /\ lastCall' = teardown
                 /\ inst' = [inst EXCEPT ![c].alive = "dead"]
                 /\ UNCHANGED <<cls, sessions>>
            ELSE /\ sessions' = [sessions EXCEPT ![sid].state = "closed"]
                 /\ LET st == IF how = "closed"
                              THEN Assign([inst |-> inst, cls |-> cls], c, "token", TokenNone)
                              ELSE [inst |-> inst, cls |-> cls]
                    IN  /\ inst' = [st.inst EXCEPT ![c].alive = "dead"]
                        /\ cls' = st.cls
                 /\ lastCall' = teardown
    /\ UNCHANGED <<lastLogin, scenario, envVars, opVars, waitVars, ingVars>>

\* An operation that goes through the session, such as get_version or
\* get_task_status: ret = self.__session.get(url, headers=self.__token);
\* return __parse_response__(ret, ...).  With __token None the request goes
\* out with no Authorization header; a closed Session opens connections
\* again when it is used.
SessionCall(c) ==
    /\ scenario = "session"
    /\ inst[c].alive = "alive"
    /\ \E r \in ApiResponses :
        LET sid == GetSession(c) IN
        /\ sid # NoSession
        /\ sessions' = [sessions EXCEPT ![sid].state = "open"]
        /\ lastCall' = Call(c, "get_version", 1, GetToken(c), sid,
                            ParseResponse(r, "Get Version").kind, Accepted(r))
    /\ UNCHANGED <<inst, cls, lastLogin, scenario, envVars, opVars, waitVars, ingVars>>

\* The header function of the image operations:
\* {'Content-type': ..., 'Authorization': token['Authorization']}.
JsonHeaders(token) == [none |-> FALSE, Authorization |-> token.Authorization]

\* An image operation, such as image_upload_commit: ret = requests.get(url,
\* headers=__json_headers__(self.__token)); return __parse_response__(ret,
\* ...).  It does not use the session; None['Authorization'] is a TypeError
\* and no request is sent.
ImageCall(c) ==
    /\ scenario = "session"
    /\ inst[c].alive = "alive"
    /\ \E r \in ApiResponses :
        IF GetToken(c).none
        THEN lastCall' = Call(c, "image_upload_commit", 0, TokenNone, NoSession,
                              "TypeError", FALSE)
        ELSE lastCall' = Call(c, "image_upload_commit", 1, JsonHeaders(GetToken(c)),
                              NoSession,
                              ParseResponse(r, "Image Upload Commit").kind, Accepted(r))
    /\ UNCHANGED <<inst, cls, sessions, lastLogin, scenario, envVars, opVars, waitVars, ingVars>>

\* A Session that no client refers to any more, or whose client failed in
\* its constructor, is closed when the runtime collects it (__del__ closes
\* the session of a collected client): at once, later or never.
Referenced ==
    {SessionOf(inst, cls, c) : c \in {d \in Clients : inst[d].alive = "alive"}}
    \cup {cls.session}

Collect ==
    /\ scenario = "session"
    /\ \E sid \in 1 .. MaxSessions :
        /\ sessions[sid].state = "open"
        /\ sid \notin Referenced
        /\ sessions' = [sessions EXCEPT ![sid].state = "closed"]
    /\ UNCHANGED <<inst, cls, lastCall, lastLogin, scenario, envVars, opVars, waitVars, ingVars>>

---------------------------------------------------------------------------
(* The envelope scenario: one client call parses one response              *)

IdleWait ==
    /\ loop = "none" /\ pc = "idle" /\ now = 0 /\ start = 0 /\ timeout = 0
    /\ supplied = FALSE /\ status = NoPayload /\ polls = 0 /\ sleeps = 0
    /\ result = NoRef /\ raised = "none" /\ firstFin = 0 /\ firstErr = 0
    /\ lastLat = 0 /\ failures = 0

InitEnvelope ==
    /\ scenario = "envelope"
    /\ resp \in Responses
    /\ where \in Labels
    /\ outcome = NoOutcome
    /\ IdleWait /\ IdleSession /\ IdleIngest
    /\ IdleOperation

\* The client operation receives resp and hands it to __parse_response__.
Parse ==
    /\ scenario = "envelope"
    /\ outcome = NoOutcome
    /\ outcome' = ParseResponse(resp, where)
    /\ UNCHANGED <<scenario, resp, where>>
    /\ UNCHANGED <<waitVars, sessVars, ingVars, opVars>>

---------------------------------------------------------------------------
(* The wait loops                                                          *)

\* upload_dataset of examples/helper.py, wait_for_job of jadbio/task.py,
\* wait_for_job of examples/image_upload1.py and image_upload2.py, and the
\* polling loops of examples/example.py.
Loops == {"upload_dataset", "task_wait_for_job", "image_wait_for_job", "example"}

\* helper.py: timeout=10 * 60, time.sleep(3)
DefaultTimeout == 600
PollInterval == 3

\* task.py and image_upload1.py: time.sleep(1); example.py: time.sleep(3)
WaitForJobInterval == 1
ExampleInterval == 3

\* Bounds of the model: the timeouts a caller supplies, the status queries
\* of one wait, and the seconds a status query takes (a short answer, or a
\* stalled one: the session sets no request timeout).
MaxTimeout == 7
MaxPolls == 5
MaxLatency == 1
StallLatency == 600

Latencies == (0 .. MaxLatency) \cup {StallLatency}

\* What the server answers to a status query of the public API
\* (task/{id}/status): an enveloped status object, an API error, or a
\* transport failure.
StatusResponses ==
    { [status_code |-> 200, content |-> "", body |-> SuccessBody(p)] :
        p \in {o \in ClientStatusObjects : WellFormed(o)} }
    \cup { [status_code |-> 200, content |-> "", body |-> ErrorBody],
           [status_code |-> 500, content |-> "Bad Gateway", body |-> ErrorBody] }

\* What the server answers to data_array/get_task_state: the status object
\* itself, not enveloped.
RawResponses ==
    { [status_code |-> sc, content |-> "", body |-> o] :
        sc \in {200, 404}, o \in {o \in RawStatusObjects : WellFormed(o)} }

\* JadbioClient.get_task_status: GET task/{id}/status, then
\* __parse_response__(ret, 'Get task').
GetTaskStatus(r) == ParseResponse(r, "Get task")

\* requests' Response.ok: no 4xx or 5xx status.
Ok(r) == r.status_code < 400

\* The spelling of the finished and of the error state in the endpoint
\* family a loop polls: lower case for task/{id}/status, upper case for
\* data_array/get_task_state; the image examples accept both.
ReportsFinished(l, s) ==
    CASE l \in {"upload_dataset", "example"} -> s = "finished"
      [] l = "task_wait_for_job"             -> s = "FINISHED"
      [] OTHER                               -> s \in {"finished", "FINISHED"}

ReportsError(l, s) ==
    CASE l \in {"upload_dataset", "example"} -> s = "error"
      [] l = "task_wait_for_job"             -> s = "ERROR"
      [] OTHER                               -> s \in {"error", "ERROR"}

InitWait ==
    /\ scenario = "wait"
    /\ resp = IdleResponse /\ where = "Get task" /\ outcome = NoOutcome
    /\ IdleSession /\ IdleIngest
    /\ IdleOperation
    /\ loop \in Loops
    /\ pc = IF loop \in {"upload_dataset", "example"} THEN "first" ELSE "poll"
    /\ now = 0 /\ start = 0
    /\ supplied \in IF loop = "upload_dataset" THEN BOOLEAN ELSE {FALSE}
    /\ timeout \in IF loop # "upload_dataset" THEN {0}
                   ELSE IF supplied THEN 0 .. MaxTimeout ELSE {DefaultTimeout}
    /\ status = NoPayload
    /\ polls = 0 /\ sleeps = 0
    /\ result = NoRef /\ raised = "none"
    /\ firstFin = 0 /\ firstErr = 0 /\ lastLat = 0 /\ failures = 0

\* The bookkeeping of one status query that took lat seconds and gave the
\* loop the object o.
Answered(o, lat) ==
    /\ status' = o
    /\ polls' = polls + 1
    /\ now' = now + lat
    /\ lastLat' = lat
    /\ firstFin' = IF firstFin = 0 /\ ReportsFinished(loop, o.state)
                   THEN polls + 1 ELSE firstFin
    /\ firstErr' = IF firstErr = 0 /\ ReportsError(loop, o.state)
                   THEN polls + 1 ELSE firstErr
    /\ UNCHANGED failures

\* A status query that raised: the exception leaves the loop.
Failed(kind, lat) ==
    /\ polls' = polls + 1
    /\ now' = now + lat
    /\ lastLat' = lat
    /\ raised' = kind
    /\ pc' = "raised"
    /\ failures' = failures + 1
    /\ UNCHANGED <<status, firstFin, firstErr>>

\* Mutant of the status query: a query that raised is passed over and the
\* loop goes on to its next step.
ClientQueryRetries(nextpc) ==
    \E r \in StatusResponses, lat \in Latencies :
        LET o == GetTaskStatus(r) IN
        IF o.kind = "return"
        THEN /\ Answered(o.payload, lat)
             /\ pc' = nextpc
             /\ UNCHANGED raised
        ELSE /\ polls' = polls + 1
             /\ now' = now + lat
             /\ lastLat' = lat
             /\ failures' = failures + 1
             /\ pc' = "sleep"
             /\ UNCHANGED <<status, firstFin, firstErr, raised>>

\* A status query through the client, as the three loops that use
\* client.get_task_status make it.
ClientQuery(nextpc) ==
    \E r \in StatusResponses, lat \in Latencies :
        LET o == GetTaskStatus(r) IN
        IF o.kind = "return"
        THEN /\ Answered(o.payload, lat)
             /\ pc' = nextpc
             /\ UNCHANGED raised
        ELSE Failed(o.kind, lat)

-----------------------------------------------------------------------------
(* examples/helper.py: upload_dataset, from the first status query on      *)

\* status = client.get_task_status(tid); start = time.time()
UploadDatasetFirstPoll ==
    /\ scenario = "wait" /\ loop = "upload_dataset" /\ pc = "first"
    /\ ClientQuery("test")
    /\ start' = IF pc' = "raised" THEN start ELSE now'
    /\ UNCHANGED <<scenario, loop, timeout, supplied, sleeps, result>>
    /\ UNCHANGED <<envVars, opVars, sessVars, ingVars>>

\* Mutant of the loop test: the timeout is checked before the state.
UploadDatasetTestTimeoutFirst ==
    /\ scenario = "wait" /\ loop = "upload_dataset" /\ pc = "test"
    /\ IF now - start > timeout
       THEN /\ pc' = "raised"
            /\ raised' = "TimeoutError"
            /\ UNCHANGED result
       ELSE IF status.state = "finished"
       THEN /\ pc' = "returned"
            /\ result' = status.datasetId
            /\ UNCHANGED raised
       ELSE /\ pc' = "sleep"
            /\ UNCHANGED <<result, raised>>
    /\ UNCHANGED <<scenario, loop, now, start, timeout, supplied, status, polls,
                   sleeps, firstFin, firstErr, lastLat, failures>>
    /\ UNCHANGED <<envVars, opVars, sessVars, ingVars>>

\* Mutant of the loop test: the timeout parameter is not read, the default is.
UploadDatasetTestIgnoresTimeout ==
    /\ scenario = "wait" /\ loop = "upload_dataset" /\ pc = "test"
    /\ IF status.state = "finished"
       THEN /\ pc' = "returned"
            /\ result' = status.datasetId
            /\ UNCHANGED raised
       ELSE IF now - start > DefaultTimeout
       THEN /\ pc' = "raised"
            /\ raised' = "TimeoutError"
            /\ UNCHANGED result
       ELSE /\ pc' = "sleep"
            /\ UNCHANGED <<result, raised>>
    /\ UNCHANGED <<scenario, loop, now, start, timeout, supplied, status, polls,
                   sleeps, firstFin, firstErr, lastLat, failures>>
    /\ UNCHANGED <<envVars, opVars, sessVars, ingVars>>

\* Mutant of the loop test: on a timeout the loop sends one more request
\* about the task before it raises.
UploadDatasetTestAsksOnAbort ==
    /\ scenario = "wait" /\ loop = "upload_dataset" /\ pc = "test"
    /\ IF status.state = "finished"
       THEN /\ pc' = "returned"
            /\ result' = status.datasetId
            /\ UNCHANGED <<raised, polls>>
       ELSE IF now - start > timeout
       THEN /\ pc' = "raised"
            /\ raised' = "TimeoutError"
            /\ polls' = polls + 1
            /\ UNCHANGED result
       ELSE /\ pc' = "sleep"
            /\ UNCHANGED <<result, raised, polls>>
    /\ UNCHANGED <<scenario, loop, now, start, timeout, supplied, status,
                   sleeps, firstFin, firstErr, lastLat, failures>>
    /\ UNCHANGED <<envVars, opVars, sessVars, ingVars>>

\* Mutant of the loop test: start is not subtracted from the clock.
UploadDatasetTestNoStart ==
    /\ scenario = "wait" /\ loop = "upload_dataset" /\ pc = "test"
    /\ IF status.state = "finished"
       THEN /\ pc' = "returned"
            /\ result' = status.datasetId
            /\ UNCHANGED raised
       ELSE IF now > timeout
       THEN /\ pc' = "raised"
            /\ raised' = "TimeoutError"
            /\ UNCHANGED result
       ELSE /\ pc' = "sleep"
            /\ UNCHANGED <<result, raised>>
    /\ UNCHANGED <<scenario, loop, now, start, timeout, supplied, status, polls,
                   sleeps, firstFin, firstErr, lastLat, failures>>
    /\ UNCHANGED <<envVars, opVars, sessVars, ingVars>>

\* while status['state'] != 'finished':
\*     if time.time() - start > timeout: raise TimeoutError(...)
\* return status['datasetId']
UploadDatasetTest ==
    /\ scenario = "wait" /\ loop = "upload_dataset" /\ pc = "test"
    /\ IF status.state = "finished"
       THEN /\ pc' = "returned"
            /\ result' = status.datasetId
            /\ UNCHANGED raised
       ELSE IF now - start > timeout
       THEN /\ pc' = "raised"
            /\ raised' = "TimeoutError"
            /\ UNCHANGED result
       ELSE /\ pc' = "sleep"
            /\ UNCHANGED <<result, raised>>
    /\ UNCHANGED <<scenario, loop, now, start, timeout, supplied, status, polls,
                   sleeps, firstFin, firstErr, lastLat, failures>>
    /\ UNCHANGED <<envVars, opVars, sessVars, ingVars>>

\* time.sleep(3)
UploadDatasetSleep ==
    /\ scenario = "wait" /\ loop = "upload_dataset" /\ pc = "sleep"
    /\ now' = now + PollInterval
    /\ sleeps' = sleeps + 1
    /\ pc' = "poll"
    /\ UNCHANGED <<scenario, loop, start, timeout, supplied, status, polls,
                   result, raised, firstFin, firstErr, lastLat, failures>>
    /\ UNCHANGED <<envVars, opVars, sessVars, ingVars>>

\* status = client.get_task_status(tid)
UploadDatasetPoll ==
    /\ scenario = "wait" /\ loop = "upload_dataset" /\ pc = "poll"
    /\ polls < MaxPolls
    /\ ClientQuery("test")
    /\ UNCHANGED <<scenario, loop, start, timeout, supplied, sleeps, result>>
    /\ UNCHANGED <<envVars, opVars, sessVars, ingVars>>

-----------------------------------------------------------------------------
(* jadbio/task.py: wait_for_job                                            *)

\* resp = __get_task_state(host, token, job.id)
\* if not resp.ok: raise            (a bare raise: RuntimeError)
\* resp_body = json.loads(resp.content); status = resp_body['state']
TaskWaitForJobPoll ==
    /\ scenario = "wait" /\ loop = "task_wait_for_job" /\ pc = "poll"
    /\ polls < MaxPolls
    /\ \E r \in RawResponses, lat \in Latencies :
        IF Ok(r)
        THEN /\ Answered(r.body, lat)
             /\ pc' = "test"
             /\ UNCHANGED raised
        ELSE Failed("RuntimeError", lat)
    /\ UNCHANGED <<scenario, loop, start, timeout, supplied, sleeps, result>>
    /\ UNCHANGED <<envVars, opVars, sessVars, ingVars>>

\* if status == 'ERROR': raise
\* elif status == 'FINISHED': return resp_body['did']
\* else: (sleep)
TaskWaitForJobTest ==
    /\ scenario = "wait" /\ loop = "task_wait_for_job" /\ pc = "test"
    /\ IF status.state = "ERROR"
       THEN /\ pc' = "raised"
            /\ raised' = "RuntimeError"
            /\ UNCHANGED result
       ELSE IF status.state = "FINISHED"
       THEN /\ pc' = "returned"
            /\ result' = status.did
            /\ UNCHANGED raised
       ELSE /\ pc' = "sleep"
            /\ UNCHANGED <<result, raised>>
    /\ UNCHANGED <<scenario, loop, now, start, timeout, supplied, status, polls,
                   sleeps, firstFin, firstErr, lastLat, failures>>
    /\ UNCHANGED <<envVars, opVars, sessVars, ingVars>>

\* time.sleep(1)
TaskWaitForJobSleep ==
    /\ scenario = "wait" /\ loop = "task_wait_for_job" /\ pc = "sleep"
    /\ now' = now + WaitForJobInterval
    /\ sleeps' = sleeps + 1
    /\ pc' = "poll"
    /\ UNCHANGED <<scenario, loop, start, timeout, supplied, status, polls,
                   result, raised, firstFin, firstErr, lastLat, failures>>
    /\ UNCHANGED <<envVars, opVars, sessVars, ingVars>>

-----------------------------------------------------------------------------
(* examples/image_upload1.py and image_upload2.py: wait_for_job            *)

\* resp_body = client.get_task_status(task)
ImageWaitForJobPoll ==
    /\ scenario = "wait" /\ loop = "image_wait_for_job" /\ pc = "poll"
    /\ polls < MaxPolls
    /\ ClientQuery("test")
    /\ UNCHANGED <<scenario, loop, start, timeout, supplied, sleeps, result>>
    /\ UNCHANGED <<envVars, opVars, sessVars, ingVars>>

\* status = resp_body['state'].upper()
\* if status == 'ERROR': raise
\* elif status == 'FINISHED': return resp_body['datasetId']
\* else: (sleep)
ImageWaitForJobTest ==
    /\ scenario = "wait" /\ loop = "image_wait_for_job" /\ pc = "test"
    /\ IF Upper(status.state) = "ERROR"
       THEN /\ pc' = "raised"
            /\ raised' = "RuntimeError"
            /\ UNCHANGED result
       ELSE IF Upper(status.state) = "FINISHED"
       THEN /\ pc' = "returned"
            /\ result' = status.datasetId
            /\ UNCHANGED raised
       ELSE /\ pc' = "sleep"
            /\ UNCHANGED <<result, raised>>
    /\ UNCHANGED <<scenario, loop, now, start, timeout, supplied, status, polls,
                   sleeps, firstFin, firstErr, lastLat, failures>>
    /\ UNCHANGED <<envVars, opVars, sessVars, ingVars>>

\* time.sleep(1)
ImageWaitForJobSleep ==
    /\ scenario = "wait" /\ loop = "image_wait_for_job" /\ pc = "sleep"
    /\ now' = now + WaitForJobInterval
    /\ sleeps' = sleeps + 1
    /\ pc' = "poll"
    /\ UNCHANGED <<scenario, loop, start, timeout, supplied, status, polls,
                   result, raised, firstFin, firstErr, lastLat, failures>>
    /\ UNCHANGED <<envVars, opVars, sessVars, ingVars>>

-----------------------------------------------------------------------------
(* examples/example.py: the loop that waits for change_feature_types       *)

\* status = client.get_task_status(tid)
ExampleFirstPoll ==
    /\ scenario = "wait" /\ loop = "example" /\ pc = "first"
    /\ ClientQuery("test")
    /\ UNCHANGED <<scenario, loop, start, timeout, supplied, sleeps, result>>
    /\ UNCHANGED <<envVars, opVars, sessVars, ingVars>>

\* while status['state'] != 'finished': (sleep and poll)
\* dataset_id = status['datasetId']
ExampleTest ==
    /\ scenario = "wait" /\ loop = "example" /\ pc = "test"
    /\ IF status.state # "finished"
       THEN /\ pc' = "sleep"
            /\ UNCHANGED result
       ELSE /\ pc' = "returned"
            /\ result' = status.datasetId
    /\ UNCHANGED <<scenario, loop, now, start, timeout, supplied, status, polls,
                   sleeps, raised, firstFin, firstErr, lastLat, failures>>
    /\ UNCHANGED <<envVars, opVars, sessVars, ingVars>>

\* time.sleep(3)
ExampleSleep ==
    /\ scenario = "wait" /\ loop = "example" /\ pc = "sleep"
    /\ now' = now + ExampleInterval
    /\ sleeps' = sleeps + 1
    /\ pc' = "poll"
    /\ UNCHANGED <<scenario, loop, start, timeout, supplied, status, polls,
                   result, raised, firstFin, firstErr, lastLat, failures>>
    /\ UNCHANGED <<envVars, opVars, sessVars, ingVars>>

\* status = client.get_task_status(tid)
ExamplePoll ==
    /\ scenario = "wait" /\ loop = "example" /\ pc = "poll"
    /\ polls < MaxPolls
    /\ ClientQuery("test")
    /\ UNCHANGED <<scenario, loop, start, timeout, supplied, sleeps, result>>
    /\ UNCHANGED <<envVars, opVars, sessVars, ingVars>>

-----------------------------------------------------------------------------
-----------------------------------------------------------------------------
(* examples/image_upload1.py and image_upload2.py: init, add, commit, wait *)

IngestFlows == {"image_upload1", "image_upload2"}

\* Bound of the model: the samples of the folder of image_upload1.py.
MaxSamples == 3

\* The data folders of upload_type2: each entry of the folder is a class
\* folder, and holds image files named stem.jpg.
ClassFolders == {"cat", "dog"}

StemsByName == <<"img1", "img2">>

Stems == { StemsByName[j] : j \in DOMAIN StemsByName }

DataFolders == UNION { [e -> SUBSET Stems] : e \in SUBSET ClassFolders }

\* os.listdir(data_folder) returns the entries in an arbitrary order.
ListDir(S) ==
    { o \in [1 .. Cardinality(S) -> S] : \A c \in S : \E j \in DOMAIN o : o[j] = c }

\* image_files_in_dir(dir): the image files of one class folder, here in
\* the order of their names.
ImageFilesInDir(files) == SelectSeq(StemsByName, LAMBDA s : s \in files)

\* The image files of a data folder: one for each stem of each entry.
ImageFiles(folder) ==
    { f \in ClassFolders \X Stems : f[1] \in DOMAIN folder /\ f[2] \in folder[f[1]] }

\* d[key] = value on a dictionary, which keeps the order of insertion: a
\* key that is present keeps its place and takes the new value.
DictSet(d, key, value) ==
    IF \E j \in DOMAIN d : d[j].key = key
    THEN [j \in DOMAIN d |-> IF d[j].key = key THEN [key |-> key, value |-> value]
                                               ELSE d[j]]
    ELSE Append(d, [key |-> key, value |-> value])

Keys(d) == [j \in DOMAIN d |-> d[j].key]

\* The loops of upload_type2 over the class folders in the order names and
\* over the image files files of each: sample = image_file.split('.')[0],
\* class_dict[sample] = target_class.
RECURSIVE ClassDictOfFiles(_, _, _)
ClassDictOfFiles(d, class, files) ==
    IF files = <<>> THEN d
    ELSE ClassDictOfFiles(DictSet(d, Head(files), class), class, Tail(files))

RECURSIVE ClassDict(_, _, _)
ClassDict(d, folder, names) ==
    IF names = <<>> THEN d
    ELSE ClassDict(ClassDictOfFiles(d, Head(names),
                                    ImageFilesInDir(folder[Head(names)])),
                   folder, Tail(names))

\* sample_path_dict[sample] = os.path.join(data_folder, target_class,
\* image_file) in the same loops.
RECURSIVE SamplePathDictOfFiles(_, _, _)
SamplePathDictOfFiles(d, class, files) ==
    IF files = <<>> THEN d
    ELSE SamplePathDictOfFiles(DictSet(d, Head(files), <<class, Head(files)>>),
                               class, Tail(files))

RECURSIVE SamplePathDict(_, _, _)
SamplePathDict(d, folder, names) ==
    IF names = <<>> THEN d
    ELSE SamplePathDict(SamplePathDictOfFiles(d, Head(names),
                                              ImageFilesInDir(folder[Head(names)])),
                        folder, Tail(names))

TaskIds == {"7"}

\* What the server answers to image_upload_init.
InitResponses ==
    { [status_code |-> 200, content |-> "",
       body |-> SuccessBody([NoPayload EXCEPT !.taskId = t])] : t \in TaskIds \cup {""} }
    \cup { [status_code |-> 200, content |-> "", body |-> ErrorBody],
           [status_code |-> 500, content |-> "Bad Gateway", body |-> ErrorBody] }

\* The server stores the sample of an add request that it accepts.
ServerReceives(r) == Accepted(r)

InitIngest ==
    /\ scenario = "ingest"
    /\ resp = IdleResponse /\ where = "Get task" /\ outcome = NoOutcome
    /\ IdleWait /\ IdleSession
    /\ received = <<>>
    /\ IdleOperation
    /\ \/ \E m \in 0 .. MaxSamples :
            ing = [NoIngest EXCEPT !.pc = "load", !.flow = "image_upload1", !.n = m]
       \/ \E folder \in DataFolders :
            ing = [NoIngest EXCEPT !.pc = "load", !.flow = "image_upload2",
                                   !.folder = folder,
                                   !.classes = Cardinality(DOMAIN folder)]

\* The step of the script that raised kind.
Abort(step, kind) ==
    [ing EXCEPT !.pc = "raised", !.raised = kind, !.failedAt = step,
                !.labelFile = IF @ = "written" THEN "removed" ELSE @]

\* def wait_for_job(client: jadbio.client.JadbioClient, task: str) after
\* import jadbio.client as jad: the annotation names jadbio, which the
\* import did not bind.  An interpreter that evaluates annotations at the
\* definition raises NameError there, one that defers them goes on.
IngestLoad ==
    /\ scenario = "ingest" /\ ing.pc = "load"
    /\ \/ ing' = Abort("load", "NameError")
       \/ ing' = [ing EXCEPT !.pc = "init"]
    /\ UNCHANGED <<scenario, received, envVars, opVars, waitVars, sessVars>>

\* upload_type2 up to init: if len(class_names) < 2: raise (f'...'), which
\* raises a str and so is a TypeError; then the label file is written and
\* task = client.image_upload_init(...)  In image_upload1.py the label
\* file is the target.csv of the folder and nothing is tested.
\* image_upload_init returns __parse_response__(ret, ...)['taskId'].
ImageUploadInit ==
    /\ scenario = "ingest" /\ ing.pc = "init"
    /\ IF ing.flow = "image_upload2" /\ ing.classes < 2
       THEN ing' = Abort("check", "TypeError")
       ELSE \E r \in InitResponses, names \in ListDir(DOMAIN ing.folder) :
            LET o == ParseResponse(r, "Image Upload init")
                built == IF ing.flow = "image_upload2"
                         THEN [ing EXCEPT
                                 !.classDict = ClassDict(<<>>, ing.folder, names),
                                 !.samplePathDict =
                                     SamplePathDict(<<>>, ing.folder, names),
                                 !.n = Len(SamplePathDict(<<>>, ing.folder, names))]
                         ELSE ing
                sent == [built EXCEPT !.inits = @ + 1,
                                      !.labelFile = IF ing.flow = "image_upload2"
                                                    THEN "written" ELSE @]
                failed(kind) ==
                    [sent EXCEPT !.pc = "raised", !.raised = kind,
                                 !.failedAt = "init",
                                 !.labelFile = IF @ = "written" THEN "removed" ELSE @]
            IN  ing' = IF o.kind # "return"
                       THEN failed(o.kind)
                       ELSE IF o.payload.taskId = ""
                       THEN failed("KeyError")
                       ELSE [sent EXCEPT !.task = o.payload.taskId,
                                         !.pc = IF sent.n = 0 THEN "commit" ELSE "add"]
    /\ UNCHANGED <<scenario, received, envVars, opVars, waitVars, sessVars>>

\* Mutant of the add loop: a failed add_sample is passed over and the loop
\* goes on with the next sample.
ImageUploadAddSampleGoesOn ==
    /\ scenario = "ingest" /\ ing.pc = "add" /\ ing.i < ing.n
    /\ \E r \in ApiResponses :
        LET o == ParseResponse(r, "Image Sample Upload") IN
        /\ ing' = [ing EXCEPT !.adds = @ + 1, !.i = @ + 1,
                              !.failedAt = IF o.kind # "return" THEN "add" ELSE @,
                              !.raised = IF o.kind # "return" THEN o.kind ELSE @,
                              !.pc = IF ing.i + 1 = ing.n THEN "commit" ELSE "add"]
        /\ received' = IF ServerReceives(r) THEN Append(received, ing.i + 1)
                       ELSE received
    /\ UNCHANGED <<scenario, envVars, opVars, waitVars, sessVars>>

\* One turn of for sample, sample_path in sample_path_dict.items():
\* client.image_upload_add_sample(task, sample, sample_path).  The keys of
\* a dictionary are distinct; sample i + 1 is the next key.
ImageUploadAddSample ==
    /\ scenario = "ingest" /\ ing.pc = "add" /\ ing.i < ing.n
    /\ \E r \in ApiResponses :
        LET o == ParseResponse(r, "Image Sample Upload") IN
        /\ ing' = IF o.kind # "return"
                  THEN [Abort("add", o.kind) EXCEPT !.adds = @ + 1]
                  ELSE [ing EXCEPT !.adds = @ + 1, !.i = @ + 1,
                                   !.pc = IF ing.i + 1 = ing.n THEN "commit" ELSE "add"]
        /\ received' = IF ServerReceives(r) THEN Append(received, ing.i + 1)
                       ELSE received
    /\ UNCHANGED <<scenario, envVars, opVars, waitVars, sessVars>>

\* Mutant of commit: the script commits again after a commit returned.
ImageUploadCommitAgain ==
    /\ scenario = "ingest" /\ ing.pc = "commit" /\ ing.commits < 2
    /\ \E r \in ApiResponses :
        LET o == ParseResponse(r, "Image Upload Commit") IN
        IF o.kind # "return"
        THEN /\ ing' = [Abort("commit", o.kind) EXCEPT !.commits = @ + 1]
             /\ UNCHANGED <<scenario, loop, pc>>
        ELSE /\ ing' = [ing EXCEPT !.commits = @ + 1]
             /\ UNCHANGED <<scenario, loop, pc>>
    /\ UNCHANGED <<now, start, timeout, supplied, status, polls, sleeps, result,
                   raised, firstFin, firstErr, lastLat, failures>>
    /\ UNCHANGED <<received, envVars, opVars, sessVars>>

\* client.image_upload_commit(task), and on its return the call of
\* wait_for_job(client, task), whose loop the wait_for_job actions run.
ImageUploadCommit ==
    /\ scenario = "ingest" /\ ing.pc = "commit"
    /\ \E r \in ApiResponses :
        LET o == ParseResponse(r, "Image Upload Commit") IN
        IF o.kind # "return"
        THEN /\ ing' = [Abort("commit", o.kind) EXCEPT !.commits = @ + 1]
             /\ UNCHANGED <<scenario, loop, pc>>
        ELSE /\ ing' = [ing EXCEPT !.commits = @ + 1, !.pc = "polling"]
             /\ scenario' = "wait"
             /\ loop' = "image_wait_for_job"
             /\ pc' = "poll"
    /\ UNCHANGED <<now, start, timeout, supplied, status, polls, sleeps, result,
                   raised, firstFin, firstErr, lastLat, failures>>
    /\ UNCHANGED <<received, envVars, opVars, sessVars>>

\* wait_for_job has returned or raised: the script ends, and the finally
\* clause of upload_type2 removes the label file.
IngestEnd ==
    /\ scenario = "wait" /\ ing.pc = "polling"
    /\ pc \in {"returned", "raised"}
    /\ ing' = [ing EXCEPT !.pc = "done",
                          !.labelFile = IF @ = "written" THEN "removed" ELSE @]
    /\ UNCHANGED <<scenario, received, envVars, opVars, waitVars, sessVars>>

-----------------------------------------------------------------------------
(* jadbio/client.py: the operations that return an id, upload_file and     *)
(* get_prediction_result                                                   *)

IntId(n) == [t |-> "int", n |-> n, s |-> ""]

StrId(s) == [t |-> "str", n |-> 0, s |-> s]

\* The ids a server sends, as JSON numbers and as JSON strings.
IdScalars == {IntId(314), IntId(7), IntId(2310), StrId("314"), StrId("p-9")}

Digit(d) == <<"0", "1", "2", "3", "4", "5", "6", "7", "8", "9">>[d + 1]

\* The decimal numeral of a natural number.
RECURSIVE Decimal(_)
Decimal(n) == IF n < 10 THEN Digit(n) ELSE Decimal(n \div 10) \o Digit(n % 10)

\* Mutant of str(): the value is handed on as it came.
StrKeepsType(x) == x

\* str(x) for an int or a str: the numeral of an int, a str itself.
Str(x) ==
    IF x.t = "str" THEN x
    ELSE StrId(IF x.n < 0 THEN "-" \o Decimal(0 - x.n) ELSE Decimal(x.n))

\* The keys under which the payloads of these operations carry an id.
IdKeys == {"projectId", "taskId", "analysisId", "predictionId"}

\* A payload with one id key, or with none (key "").
IdPayloads ==
    { [key |-> k, id |-> x] : k \in IdKeys, x \in IdScalars }
    \cup { [key |-> "", id |-> NoId] }

\* The raw content of a response: bytes that are UTF-8.
OpContents == { <<>>, <<49, 44, 48>>, <<195, 169>> }

\* content.decode("utf-8"): the code points of the bytes, for one-byte and
\* two-byte sequences.
RECURSIVE Utf8Decode(_)
Utf8Decode(b) ==
    IF b = <<>> THEN <<>>
    ELSE IF b[1] < 128 THEN <<b[1]>> \o Utf8Decode(Tail(b))
    ELSE <<(b[1] - 192) * 64 + (b[2] - 128)>> \o Utf8Decode(Tail(Tail(b)))

OpStatusCodes == {200, 201, 404}

OpResponses ==
    { [status_code |-> sc, content |-> ct, body |-> b] :
        sc \in OpStatusCodes, ct \in OpContents,
        b \in { SuccessBody(p) : p \in IdPayloads }
              \cup { [ErrorBody EXCEPT !.payload = p] : p \in IdPayloads } }

FileIds == {IntId(2310), StrId("f-1")}

InitOperation ==
    /\ scenario = "operation"
    /\ resp \in OpResponses /\ where = "Get task" /\ outcome = NoOutcome
    /\ IdleWait /\ IdleSession /\ IdleIngest
    /\ IdleOperation

\* return str(JadbioClient.__parse_response__(res, label)[key])
ReturnId(r, label, key) ==
    LET o == ParseResponse(r, label) IN
    IF o.kind # "return" THEN [kind |-> o.kind, value |-> NoId]
    ELSE IF o.payload.key # key THEN [kind |-> "KeyError", value |-> NoId]
    ELSE [kind |-> "return", value |-> Str(o.payload.id)]

\* One of the operations that return an id is called and gets resp.
IdOperation(name, label, key) ==
    /\ scenario = "operation" /\ call = NoOperation
    /\ LET o == ReturnId(resp, label, key) IN
        call' = [NoOperation EXCEPT !.op = name, !.kind = o.kind, !.value = o.value]
    /\ UNCHANGED <<scenario, ds, envVars, waitVars, sessVars, ingVars>>

CreateProject == IdOperation("create_project", "Create project", "projectId")

CreateDataset == IdOperation("create_dataset", "Create dataset", "taskId")

ChangeFeatureTypes == IdOperation("change_feature_types", "Change feature types", "taskId")

AnalyzeDataset == IdOperation("analyze_dataset", "Analyze dataset", "analysisId")

PredictOutcome == IdOperation("predict_outcome", "Predict outcome", "predictionId")

\* Mutant of upload_file: the response goes through __parse_response__.
UploadFileParses(fid, r) ==
    LET o == ParseResponse(r, "Upload file") IN
    IF o.kind # "return" THEN [kind |-> o.kind, value |-> NoId]
    ELSE [kind |-> "return", value |-> fid]

\* upload_file(file_id, pth_to_file), answered by r:
\* if ret.status_code != 200: __request_failed__(ret, 'Upload file')
\* return file_id
UploadFileCall(fid, r) ==
    IF r.status_code # 200
    THEN [kind |-> RequestFailed(r, "Upload file").kind, value |-> NoId]
    ELSE [kind |-> "return", value |-> fid]

UploadFile ==
    /\ scenario = "operation" /\ call = NoOperation
    /\ \E fid \in FileIds :
        LET o == UploadFileCall(fid, resp) IN
        call' = [NoOperation EXCEPT !.op = "upload_file", !.arg = fid,
                                    !.kind = o.kind, !.value = o.value]
    /\ UNCHANGED <<scenario, ds, envVars, waitVars, sessVars, ingVars>>

\* Mutant of get_prediction_result: the response goes through
\* __parse_response__ before its content is returned.
GetPredictionResultParses(r) ==
    LET o == ParseResponse(r, "Get prediction result") IN
    IF o.kind # "return" THEN [kind |-> o.kind, text |-> <<>>]
    ELSE [kind |-> "return", text |-> Utf8Decode(r.content)]

\* get_prediction_result(prediction_id), answered by r:
\* if ret.status_code != 200: __request_failed__(ret, ...)
\* return ret.content.decode("utf-8")
GetPredictionResultCall(r) ==
    IF r.status_code # 200
    THEN [kind |-> RequestFailed(r, "Get prediction result").kind, text |-> <<>>]
    ELSE [kind |-> "return", text |-> Utf8Decode(r.content)]

GetPredictionResult ==
    /\ scenario = "operation" /\ call = NoOperation
    /\ LET o == GetPredictionResultCall(resp) IN
        call' = [NoOperation EXCEPT !.op = "get_prediction_result",
                                    !.kind = o.kind, !.text = o.text]
    /\ UNCHANGED <<scenario, ds, envVars, waitVars, sessVars, ingVars>>

-----------------------------------------------------------------------------
(* examples/helper.py: upload_dataset up to the first status query         *)

\* What the server answers to upload_file and to create_dataset.
FlowResponses ==
    { [status_code |-> sc, content |-> <<>>, body |-> b] :
        sc \in {200, 404},
        b \in { SuccessBody([key |-> "taskId", id |-> IntId(7)]),
                SuccessBody([key |-> "", id |-> NoId]),
                ErrorBody } }

InitDataset ==
    /\ scenario = "dataset"
    /\ resp = IdleResponse /\ where = "Get task" /\ outcome = NoOutcome
    /\ IdleWait /\ IdleSession /\ IdleIngest
    /\ call = NoOperation
    /\ ds = [NoDataset EXCEPT !.pc = "upload"]

\* file_id = 2310; file_id = client.upload_file(file_id, pth)
DatasetUploadFile ==
    /\ scenario = "dataset" /\ ds.pc = "upload"
    /\ \E r \in FlowResponses :
        LET o == UploadFileCall(IntId(2310), r)
            sent == [ds EXCEPT !.uploads = @ + 1, !.uploadId = IntId(2310)]
        IN  ds' = IF o.kind # "return"
                  THEN [sent EXCEPT !.pc = "raised", !.raised = o.kind]
                  ELSE [sent EXCEPT !.pc = "create", !.fileId = o.value]
    /\ UNCHANGED <<scenario, call, envVars, waitVars, sessVars, ingVars>>

\* Mutant of the flow: create_dataset is sent for another file id than the
\* one upload_file returned.
DatasetCreateDatasetOtherFile ==
    /\ scenario = "dataset" /\ ds.pc = "create"
    /\ \E r \in FlowResponses, sup \in BOOLEAN :
        LET o == ReturnId(r, "Create dataset", "taskId")
            sent == [ds EXCEPT !.creates = @ + 1, !.createId = IntId(7)]
        IN  IF o.kind # "return"
            THEN /\ ds' = [sent EXCEPT !.pc = "raised", !.raised = o.kind]
                 /\ UNCHANGED <<scenario, loop, pc, supplied, timeout>>
            ELSE /\ ds' = [sent EXCEPT !.pc = "polling", !.tid = o.value]
                 /\ scenario' = "wait"
                 /\ loop' = "upload_dataset"
                 /\ pc' = "first"
                 /\ supplied' = sup
                 /\ timeout' \in IF sup THEN 0 .. MaxTimeout ELSE {DefaultTimeout}
    /\ UNCHANGED <<now, start, status, polls, sleeps, result, raised, firstFin,
                   firstErr, lastLat, failures>>
    /\ UNCHANGED <<call, envVars, sessVars, ingVars>>

\* tid = client.create_dataset(name, pid, file_id, fsz, ...), and on its
\* return the first status query of the loop, which the upload_dataset
\* actions run with the timeout the caller passed or the default.
DatasetCreateDataset ==
    /\ scenario = "dataset" /\ ds.pc = "create"
    /\ \E r \in FlowResponses, sup \in BOOLEAN :
        LET o == ReturnId(r, "Create dataset", "taskId")
            sent == [ds EXCEPT !.creates = @ + 1, !.createId = ds.fileId]
        IN  IF o.kind # "return"
            THEN /\ ds' = [sent EXCEPT !.pc = "raised", !.raised = o.kind]
                 /\ UNCHANGED <<scenario, loop, pc, supplied, timeout>>
            ELSE /\ ds' = [sent EXCEPT !.pc = "polling", !.tid = o.value]
                 /\ scenario' = "wait"
                 /\ loop' = "upload_dataset"
                 /\ pc' = "first"
                 /\ supplied' = sup
                 /\ timeout' \in IF sup THEN 0 .. MaxTimeout ELSE {DefaultTimeout}
    /\ UNCHANGED <<now, start, status, polls, sleeps, result, raised, firstFin,
                   firstErr, lastLat, failures>>
    /\ UNCHANGED <<call, envVars, sessVars, ingVars>>

InitSession ==
    /\ scenario = "session"
    /\ resp = IdleResponse /\ where = "Login" /\ outcome = NoOutcome
    /\ IdleWait /\ IdleIngest
    /\ IdleSession
    /\ IdleOperation

Init == InitEnvelope \/ InitWait \/ InitSession \/ InitIngest \/ InitOperation
        \/ InitDataset

Next ==
    \/ Parse
    \/ UploadDatasetFirstPoll
    \/ UploadDatasetTest
    \/ UploadDatasetSleep
    \/ UploadDatasetPoll
    \/ TaskWaitForJobPoll
    \/ TaskWaitForJobTest
    \/ TaskWaitForJobSleep
    \/ ImageWaitForJobPoll
    \/ ImageWaitForJobTest
    \/ ImageWaitForJobSleep
    \/ ExampleFirstPoll
    \/ ExampleTest
    \/ ExampleSleep
    \/ ExamplePoll
    \/ \E c \in Clients : Construct(c)
    \/ \E c \in Clients : Login(c)
    \/ \E c \in Clients : Logout(c)
    \/ \E c \in Clients : Del(c)
    \/ \E c \in Clients : SessionCall(c)
    \/ \E c \in Clients : ImageCall(c)
    \/ Collect
    \/ IngestLoad
    \/ ImageUploadInit
    \/ ImageUploadAddSample
    \/ ImageUploadCommit
    \/ IngestEnd
    \/ CreateProject
    \/ CreateDataset
    \/ ChangeFeatureTypes
    \/ AnalyzeDataset
    \/ PredictOutcome
    \/ UploadFile
    \/ GetPredictionResult
    \/ DatasetUploadFile
    \/ DatasetCreateDataset

Spec == Init /\ [][Next]_vars

-----------------------------------------------------------------------------
(* Envelope parsing: C1 - C4                                               *)

Parsed == scenario = "envelope" /\ outcome # NoOutcome

HasStatus(r, st) == "status" \in r.body.has /\ r.body.status = st

\* C1: parsing a response with transport status 200 and body
\* {status: "success", payload: P} returns exactly P, and parsing a response
\* with transport status 200 and a body of status "error" raises
\* JadRequestResponseError and returns no payload.
C1_SuccessReturnsPayloadErrorRaisesApiError ==
    Parsed /\ resp.status_code = 200 =>
        /\ HasStatus(resp, "success") /\ "payload" \in resp.body.has
              => outcome = Returned(resp.body.payload)
        /\ HasStatus(resp, "error")
              => outcome.kind = "JadRequestResponseError"

\* C2: a response whose transport status is a failure raises RequestFailed,
\* never the API error and never a payload; a response with transport status
\* 200 and a logical status other than "success" raises
\* JadRequestResponseError.
C2_TransportErrorBeforeApiError ==
    Parsed =>
        /\ TransportFailed(resp) => outcome.kind = "RequestFailed"
        /\ (~TransportFailed(resp) /\ "status" \in resp.body.has
               /\ resp.body.status # "success")
              => outcome.kind = "JadRequestResponseError"

\* C3 as stated: RequestFailed is raised exactly for the responses whose
\* status code is not a 2xx code.
C3_TransportErrorExactlyForNon2xx ==
    Parsed => (outcome.kind = "RequestFailed" <=> resp.status_code \notin 200 .. 299)

\* C3 as amended: RequestFailed is raised exactly for the responses whose
\* status code is not 200 (201 and 204 raise it too); exactly the responses
\* with status code 200 go on to envelope decoding.
C3_TransportErrorExactlyForNon200 ==
    Parsed => (outcome.kind = "RequestFailed" <=> resp.status_code # 200)

\* A response with status code 201 was parsed and raised RequestFailed.
C3_Witness ==
    Parsed /\ resp.status_code = 201 /\ outcome.kind = "RequestFailed"

\* C4: whatever the response, parsing returns the payload, raises
\* RequestFailed or raises JadRequestResponseError, and with transport status
\* 200 and a status field that is absent or not "success" it raises
\* JadRequestResponseError.
C4_ParsingIsTotal ==
    Parsed =>
        /\ outcome.kind \in {"return", "RequestFailed", "JadRequestResponseError"}
        /\ (resp.status_code = 200 /\ ~HasStatus(resp, "success"))
              => outcome.kind = "JadRequestResponseError"

-----------------------------------------------------------------------------
(* The wait loops: C5 - C10                                                *)

Elapsed == now - start

\* The result reference a loop reads from a status object: 'did' in
\* jadbio/task.py, 'datasetId' elsewhere.
Reference(l, o) == IF l = "task_wait_for_job" THEN o.did ELSE o.datasetId

\* C5: when the answer to status poll k is the first that reports the
\* finished state, the loop has sent exactly k polls and slept k-1 times, it
\* is about to return or has returned the reference of that answer, and it
\* sends no further poll.
C5_FinishedAtPollK ==
    (scenario = "wait" /\ firstFin # 0) =>
        /\ polls = firstFin
        /\ sleeps = firstFin - 1
        /\ ReportsFinished(loop, status.state)
        /\ pc \in {"test", "returned"}
        /\ pc = "returned" => (result = Reference(loop, status) /\ result # NoRef)

\* The finished state came with the fourth poll and the loop returned its
\* reference "6065".
C5_Witness ==
    /\ firstFin = 4 /\ polls = 4 /\ sleeps = 3
    /\ pc = "returned" /\ result = "6065"

\* C6: once a status poll has reported the error state, the loop raises at
\* that poll: it sends no further poll, does not go on to sleep and does not
\* return.
C6_ErrorStopsTheLoop ==
    (scenario = "wait" /\ firstErr # 0) =>
        /\ polls = firstErr
        /\ pc \in {"test", "raised"}
        /\ pc = "raised" => raised # "TimeoutError"

\* C7 as stated: the timeout error is raised at most timeout + poll_interval
\* seconds after the first poll, and the loop returns no value unless a poll
\* reported the finished state.
C7_TimeoutWithinTPlusInterval ==
    (scenario = "wait" /\ loop = "upload_dataset") =>
        /\ raised = "TimeoutError" => Elapsed <= timeout + PollInterval
        /\ pc = "returned" => firstFin # 0

\* C7 as amended: the loop goes on past a timeout check only while the
\* elapsed time is at most the timeout, so the timeout error is raised at
\* most timeout + poll_interval + the latency of the last status query after
\* the first query returned; the loop returns no value unless a poll reported
\* the finished state.
C7_TimeoutWithinTPlusIntervalPlusLatency ==
    (scenario = "wait" /\ loop = "upload_dataset") =>
        /\ raised = "TimeoutError" =>
              (Elapsed > timeout /\ Elapsed <= timeout + PollInterval + lastLat)
        /\ pc = "sleep" => Elapsed <= timeout
        /\ pc = "returned" => firstFin # 0

\* The timeout error was raised later than timeout + poll_interval.
C7_Witness ==
    /\ loop = "upload_dataset" /\ supplied /\ raised = "TimeoutError"
    /\ firstFin = 0 /\ Elapsed > timeout + PollInterval

\* C8 as stated: no status poll is sent when the elapsed time already
\* exceeds the timeout.
C8_NoPollAfterTimeout ==
    (scenario = "wait" /\ loop = "upload_dataset" /\ pc = "poll") =>
        Elapsed <= timeout

\* C8 as amended: a timeout check that finds the elapsed time above the
\* timeout raises the timeout error and no poll follows it; the elapsed time
\* is checked once per iteration, before the sleep, so a poll is sent up to
\* poll_interval seconds after the timeout, and a finished answer to it is
\* returned.
C8_TimeoutCheckedBeforeSleep ==
    [][ (scenario = "wait" /\ loop = "upload_dataset") =>
          /\ (pc = "test" /\ status.state # "finished" /\ Elapsed > timeout)
                => (pc' = "raised" /\ raised' = "TimeoutError" /\ polls' = polls)
          /\ (pc = "test" /\ status.state = "finished")
                => (pc' = "returned" /\ result' = status.datasetId)
          /\ polls' # polls /\ polls > 0
                => (raised = "none" /\ Elapsed <= timeout + PollInterval) ]_vars

\* A poll sent after the timeout had passed was answered finished, and the
\* loop returned its reference.
C8_Witness ==
    /\ loop = "upload_dataset" /\ pc = "returned" /\ result # NoRef
    /\ Elapsed - lastLat > timeout

\* C9 as stated: a loop whose caller supplied no timeout never raises the
\* timeout error and returns only on a finished report.
C9_NoTimeoutWithoutSuppliedTimeout ==
    (scenario = "wait" /\ ~supplied) =>
        /\ raised # "TimeoutError"
        /\ pc = "returned" => firstFin # 0

\* C9 as amended: wait_for_job and the loops of example.py have no timeout:
\* they never raise the timeout error and return only on a finished report.
\* upload_dataset called without a timeout uses its default of 600 seconds
\* and raises the timeout error only once more than 600 seconds have
\* elapsed.
C9_OnlyUploadDatasetTimesOut ==
    scenario = "wait" =>
        /\ loop # "upload_dataset" => raised # "TimeoutError"
        /\ (loop = "upload_dataset" /\ ~supplied /\ raised = "TimeoutError")
              => Elapsed > DefaultTimeout
        /\ pc = "returned" => firstFin # 0

\* wait_for_job of jadbio/task.py still waits after more than 600 seconds.
C9_Witness ==
    /\ loop = "task_wait_for_job" /\ pc = "sleep"
    /\ now > DefaultTimeout /\ polls = MaxPolls

\* C10: in every wait loop a state reported as 'finished' or 'FINISHED' ends
\* the loop with success and a state reported as 'error' or 'ERROR' ends it
\* with a failure: the loop never goes on to sleep on such a report.
C10_TerminalStatesCaseNormalized ==
    (scenario = "wait" /\ polls > 0) =>
        /\ Upper(status.state) = "FINISHED" => pc \in {"test", "returned"}
        /\ Upper(status.state) = "ERROR" =>
              (pc \in {"test", "raised"} /\ raised # "TimeoutError")

---------------------------------------------------------------------------
(* Session state: claims C11 to C16                                        *)

\* The token, the session and the state of the session that client c sees.
Effective(c) ==
    <<GetToken(c), GetSession(c),
      IF GetSession(c) = NoSession THEN "none" ELSE sessions[GetSession(c)].state>>

\* C11: every request a client sends, the login request apart, carries the
\* header Authorization: Bearer <token> with the token of that client's
\* most recent successful login.
C11_RequestsCarryLatestToken ==
    (lastCall.sent = 1 /\ lastCall.op \notin {"login", "construct"}) =>
        /\ lastLogin[lastCall.client] # ""
        /\ ~lastCall.headers.none
        /\ lastCall.headers.Authorization = <<"Bearer", " ", lastLogin[lastCall.client]>>

\* C12: an operation other than login and logout that is invoked while no
\* token is stored fails with a not-authenticated error and sends no
\* request.
C12_NoTokenNoRequest ==
    (lastCall.op \in {"get_version", "image_upload_commit"} /\ lastCall.tokenBefore.none) =>
        /\ lastCall.sent = 0
        /\ lastCall.kind = "NotAuthenticatedError"

\* C13: logout on a constructed client never raises, whatever the session
\* and the token were, and leaves the session closed and no token stored.
C13_LogoutIdempotent ==
    lastCall.op = "logout" =>
        /\ lastCall.kind = "return"
        /\ GetToken(lastCall.client).none
        /\ GetSession(lastCall.client) # NoSession
        /\ sessions[GetSession(lastCall.client)].state = "closed"

\* A logout that found the session closed and no token stored.
C13_Witness ==
    /\ lastCall.op = "logout" /\ lastCall.kind = "return"
    /\ lastCall.wasClosed /\ lastCall.tokenBefore.none

\* C14: of the sessions the logins of one client have created, at most one
\* is open.
C14_AtMostOneOpenSession ==
    \A c \in Clients :
        Cardinality({i \in 1 .. MaxSessions :
                        sessions[i].state = "open" /\ sessions[i].owner = c}) <= 1

\* C15: construction, login and logout on one client leave the token, the
\* session and the session's state of every other constructed client as
\* they were, and no two clients hold the same session.
C15_SessionStatePerInstance ==
    [][\A c \in Clients : \A d \in Clients \ {c} :
          /\ ((Construct(c) \/ Login(c) \/ Logout(c)) /\ inst[d].alive = "alive")
                => Effective(d)' = Effective(d)
          /\ (inst'[c].alive = "alive" /\ inst'[d].alive = "alive")
                => GetSession(c)' # GetSession(d)']_vars

\* Client a has logged out while client b still holds its token.
C15_Witness ==
    /\ lastCall.client = "a" /\ lastCall.op = "logout"
    /\ inst["b"].alive = "alive" /\ ~GetToken("b").none
    /\ sessions[GetSession("b")].state = "open"

\* C16: a login that the server does not accept, by the status code or by
\* the logical status, raises and leaves the stored token as it was; a
\* constructor whose login raises yields no client.
C16_FailedLoginStoresNoToken ==
    (lastCall.op \in {"login", "construct"} /\ ~lastCall.accepted) =>
        /\ lastCall.kind \notin {"return", "none"}
        /\ GetToken(lastCall.client) = lastCall.tokenBefore
        /\ lastCall.op = "construct" => inst[lastCall.client].alive = "failed"

\* The constructor of a has raised, and a login of b that held a token got
\* a transport failure carrying a token.
C16_Witness ==
    /\ inst["a"].alive = "failed"
    /\ lastCall.client = "b" /\ lastCall.op = "login"
    /\ lastCall.kind = "RequestFailed" /\ ~lastCall.tokenBefore.none
    /\ GetToken("b") = TokenDict("T1")

---------------------------------------------------------------------------
(* Image ingestion and error propagation: claims C17 to C20                *)

\* The order of the requests of an ingestion: samples are added only to a
\* task that init returned, commit is sent only after every sample was
\* added and no sample is added after it, and the task is polled only
\* after commit returned.
IngestOrder ==
    /\ ing.inits <= 1 /\ ing.adds <= ing.n
    /\ ing.adds > 0 => (ing.inits = 1 /\ ing.task # "")
    /\ ing.commits > 0 => (ing.task # "" /\ ing.i = ing.n /\ ing.adds = ing.n)
    /\ (ing.pc # "idle" /\ polls > 0) =>
          (ing.commits = 1 /\ ing.pc \in {"polling", "done"})
    /\ ing.pc \in {"polling", "done"} => (ing.commits = 1 /\ ing.failedAt = "none")

\* C17: for each task id that init returned commit is called exactly once,
\* after init and after every add_sample; no add_sample follows commit and
\* polling starts only after commit returned.
C17_CommitExactlyOnce ==
    /\ IngestOrder
    /\ (ing.task # "" /\ ing.pc \in {"raised", "done"}) => ing.commits = 1

\* C17 as amended: commit is called at most once for a task id, and exactly
\* once when every add_sample call returned; it comes after init and after
\* every add_sample, no add_sample follows it and polling starts only after
\* it returned.
C17_CommitAtMostOnceAfterAllAdds ==
    /\ IngestOrder
    /\ ing.commits <= 1
    /\ (ing.task # "" /\ ing.pc \in {"raised", "done"} /\ ing.failedAt # "add")
          => ing.commits = 1

\* An ingestion of MaxSamples samples that was committed, polled more than
\* once and gave a dataset.
C17_Witness ==
    /\ ing.pc = "done" /\ pc = "returned" /\ polls >= 2
    /\ ing.n = MaxSamples /\ ing.adds = MaxSamples /\ ing.commits = 1

\* C18: the ingestion script stops early only where the folder has fewer
\* than two classes or the server refuses a request; when its wait returns
\* it returns a dataset id, and the server has received each of the N
\* sample keys once.
C18_RoundTripYieldsDataset ==
    /\ ing.pc = "raised" => ing.failedAt \in {"check", "init", "add", "commit"}
    /\ (ing.pc = "done" /\ pc = "returned") =>
          /\ result \in DatasetIds
          /\ received = [k \in 1 .. ing.n |-> k]

\* C19: once an add_sample call has raised, the script has ended with that
\* error: the failed call is the last request, so no further sample is
\* added, nothing is committed and nothing is polled.
C19_FailedAddEndsTheFlow ==
    ing.failedAt = "add" =>
        /\ scenario = "ingest" /\ ing.pc = "raised" /\ ing.raised # "none"
        /\ ing.adds = ing.i + 1 /\ ing.inits = 1
        /\ ing.commits = 0 /\ polls = 0
        /\ Len(received) = ing.i

\* The second of two add_sample calls of upload_type2 has failed.
C19_Witness ==
    /\ ing.flow = "image_upload2" /\ ing.failedAt = "add"
    /\ ing.n = 2 /\ ing.i = 1 /\ ing.labelFile = "removed"

\* No retry in a wait loop or in an ingestion: a status query that raised
\* ends the loop with that error, and a step of the ingestion that raised
\* ends the script.
NoRetry ==
    /\ failures <= 1
    /\ failures = 1 => (pc = "raised" /\ raised # "none")
    /\ ing.failedAt \in {"init", "add", "commit"} => ing.pc = "raised"
    /\ ing.inits <= 1 /\ ing.adds <= ing.i + 1

\* C20: every client operation sends exactly one request per invocation, an
\* error of that request reaches the caller, and a failed status query ends
\* the wait loop.
C20_ExactlyOneRequestNoRetry ==
    /\ NoRetry
    /\ lastCall.op # "none" => lastCall.sent = 1
    /\ (lastCall.sent = 1 /\ ~lastCall.accepted) => lastCall.kind # "return"

\* C20 as amended: no client operation sends more than one request per
\* invocation; login sends exactly one, every other operation that talks to
\* the server sends exactly one when a token is stored, and logout sends
\* none.  An error of the request reaches the caller and a failed status
\* query ends the wait loop.
C20_AtMostOneRequestNoRetry ==
    /\ NoRetry
    /\ lastCall.sent <= 1
    /\ lastCall.op \in {"login", "construct"} => lastCall.sent = 1
    /\ (lastCall.op \in {"get_version", "image_upload_commit"}
            /\ ~lastCall.tokenBefore.none) => lastCall.sent = 1
    /\ lastCall.op = "logout" => lastCall.sent = 0
    /\ (lastCall.sent = 1 /\ ~lastCall.accepted) => lastCall.kind # "return"

\* A status query failed after earlier ones were answered.
C20_Witness ==
    /\ scenario = "wait" /\ failures = 1 /\ polls >= 2 /\ pc = "raised"

---------------------------------------------------------------------------
(* Teardown: claim C21                                                     *)

\* C21: the teardown of a client never raises, whatever the client's state
\* and whether or not close() fails; when no close() fails it leaves the
\* session closed and no token stored.
C21_TeardownNeverRaises ==
    lastCall.op = "__del__" =>
        /\ lastCall.kind = "return"
        /\ inst[lastCall.client].alive = "dead"
        /\ (~lastCall.closeFailed /\ lastCall.sessionBefore # NoSession) =>
              /\ sessions[lastCall.sessionBefore].state = "closed"
              /\ GetToken(lastCall.client).none

\* The teardown of a client that held a token, with a close() that failed.
C21_Witness ==
    /\ lastCall.op = "__del__" /\ lastCall.closeFailed
    /\ ~lastCall.tokenBefore.none /\ lastCall.kind = "return"

---------------------------------------------------------------------------
(* A login that fails on a logged-in client: claim C28                     *)

\* C28: a login that raises on a client that holds a token leaves the token
\* as it was and the client with a new, open session in place of the one
\* it had; the call that follows sends the old token through the new
\* session.
C28_FailedLoginKeepsTokenReplacesSession ==
    /\ (lastCall.op = "login" /\ lastCall.kind # "return" /\ ~lastCall.tokenBefore.none) =>
          /\ GetToken(lastCall.client) = lastCall.tokenBefore
          /\ GetSession(lastCall.client) # lastCall.sessionBefore
          /\ GetSession(lastCall.client) = lastCall.via
          /\ sessions[lastCall.via].state = "open"
    /\ (lastCall.op = "get_version" /\ lastCall.afterFailedLogin
            /\ ~lastCall.tokenBefore.none) =>
          /\ lastCall.sent = 1
          /\ lastCall.headers = TokenDict(lastLogin[lastCall.client])
          /\ lastCall.via = lastCall.sessionBefore

\* A call that followed a failed login of a client holding token T1.
C28_Witness ==
    /\ lastCall.op = "get_version" /\ lastCall.afterFailedLogin
    /\ lastCall.headers = TokenDict("T1") /\ lastCall.sent = 1

---------------------------------------------------------------------------
(* The API error: claim C25                                                *)

\* The pieces of an exception message, as a set.
Pieces(msg) == {msg[i] : i \in 1 .. Len(msg)}

\* C25: for every body of transport status 200 whose status is not
\* "success" the API error is built and raised, whatever the types of the
\* message and the code: its message starts with the label of the calling
\* operation and holds the server's message and code when the body has
\* them.
C25_ApiErrorCarriesLabelMessageCode ==
    (Parsed /\ resp.status_code = 200 /\ "status" \in resp.body.has
        /\ resp.body.status # "success") =>
        /\ outcome.kind = "JadRequestResponseError"
        /\ Len(outcome.message) >= 1 /\ outcome.message[1] = where
        /\ "message" \in resp.body.has => resp.body.message.v \in Pieces(outcome.message)
        /\ "code" \in resp.body.has => resp.body.code.v \in Pieces(outcome.message)

---------------------------------------------------------------------------
(* Single operations: claims C23, C24 and C29                              *)

IdOperations ==
    [create_project |-> "projectId", create_dataset |-> "taskId",
     change_feature_types |-> "taskId", analyze_dataset |-> "analysisId",
     predict_outcome |-> "predictionId"]

\* The numerals of the ids the model's server sends.
Numeral(n) ==
    CASE n = 314 -> "314" [] n = 7 -> "7" [] n = 2310 -> "2310" [] OTHER -> "?"

\* C23: create_project, create_dataset, change_feature_types,
\* analyze_dataset and predict_outcome, given an accepted response whose
\* payload has their id key, return the id as a str: a string id itself,
\* the numeral of a numeric id (314 gives "314").
C23_IdsCoercedToString ==
    (scenario = "operation" /\ call.op \in DOMAIN IdOperations
        /\ Accepted(resp) /\ "payload" \in resp.body.has
        /\ resp.body.payload.key = IdOperations[call.op]) =>
        /\ call.kind = "return"
        /\ call.value.t = "str"
        /\ LET id == resp.body.payload.id IN
            call.value.s = IF id.t = "str" THEN id.s ELSE Numeral(id.n)

\* create_project got the number 314 as projectId and returned "314".
C23_Witness ==
    /\ call.op = "create_project" /\ call.kind = "return"
    /\ resp.body.payload.id = IntId(314) /\ call.value = StrId("314")

\* The text of the contents the model's server sends.
TextOf(ct) ==
    CASE ct = <<>> -> <<>>
      [] ct = <<49, 44, 48>> -> <<49, 44, 48>>
      [] ct = <<195, 169>> -> <<233>>

\* C24: get_prediction_result returns the content of a response of status
\* code 200 decoded as text, whatever the body's status and payload are,
\* and raises RequestFailed and returns nothing for any other status code.
C24_PredictionResultIsRawText ==
    (scenario = "operation" /\ call.op = "get_prediction_result") =>
        IF resp.status_code = 200
        THEN call.kind = "return" /\ call.text = TextOf(resp.content)
        ELSE call.kind = "RequestFailed" /\ call.text = <<>>

\* A response of status 200 whose body says "error" gave its text.
C24_Witness ==
    /\ call.op = "get_prediction_result" /\ call.kind = "return"
    /\ resp.body.status = "error" /\ resp.content = <<195, 169>>
    /\ call.text = <<233>>

\* C29: upload_file returns its file_id argument as it got it whenever the
\* status code is 200, whatever the body says, and raises RequestFailed for
\* every other status code.
C29_UploadFileIgnoresEnvelope ==
    (scenario = "operation" /\ call.op = "upload_file") =>
        IF resp.status_code = 200
        THEN call.kind = "return" /\ call.value = call.arg
        ELSE call.kind = "RequestFailed" /\ call.value = NoId

\* upload_file got status 200 with a body of status "error" and returned
\* the file id 2310.
C29_Witness ==
    /\ call.op = "upload_file" /\ call.kind = "return"
    /\ resp.status_code = 200 /\ resp.body.status = "error"
    /\ call.arg = IntId(2310) /\ call.value = IntId(2310)

---------------------------------------------------------------------------
(* The dataset creation flow: claim C30                                    *)

\* C30: upload_dataset sends upload_file, then create_dataset, then status
\* queries: neither of the two is sent twice, create_dataset is sent only
\* after upload_file returned and for the file id of the upload, a status
\* query is sent only after both were sent once, and the value returned is
\* the datasetId of the status response that reported 'finished', which is
\* the last one queried.
C30_UploadCreateThenPoll ==
    ds.pc # "idle" =>
        /\ ds.uploads <= 1 /\ ds.creates <= 1
        /\ ds.creates = 1 => (ds.uploads = 1 /\ ds.fileId # NoId
                                /\ ds.createId = ds.uploadId)
        /\ polls > 0 => (ds.uploads = 1 /\ ds.creates = 1 /\ ds.tid # NoId
                            /\ ds.pc = "polling")
        /\ ds.pc = "polling" => (ds.uploads = 1 /\ ds.creates = 1)
        /\ pc = "returned" =>
              /\ status.state = "finished" /\ result = status.datasetId
              /\ firstFin = polls

\* The flow returned a dataset id after more than one status query.
C30_Witness ==
    /\ ds.pc = "polling" /\ pc = "returned" /\ polls >= 2
    /\ ds.createId = IntId(2310) /\ result \in DatasetIds

---------------------------------------------------------------------------
(* The end of a wait loop: claim C22                                       *)

\* The requests sent so far: status queries, and the requests of the
\* ingestion and of the dataset flow around the loop.
RequestsSent == <<polls, ing.inits, ing.adds, ing.commits, ds.uploads, ds.creates>>

---------------------------------------------------------------------------
(* The data folder of upload_type2: claims C26 and C27                     *)

\* The classes of the label file, which upload_type2 writes from class_dict.
LabelClasses == { ing.classDict[j].value : j \in DOMAIN ing.classDict }

\* The class folders that hold an image file.
ClassesWithSamples == { c \in DOMAIN ing.folder : ing.folder[c] # {} }

\* C26: upload_type2 calls init only with a label file of at least two
\* distinct classes; where fewer than two class folders hold samples it
\* sends no init, no add_sample and no commit.
C26_InitOnlyWithTwoClasses ==
    ing.flow = "image_upload2" =>
        /\ ing.inits > 0 => Cardinality(LabelClasses) >= 2
        /\ Cardinality(ClassesWithSamples) < 2 =>
              (ing.inits = 0 /\ ing.adds = 0 /\ ing.commits = 0)

\* C27: the keys upload_type2 passes to add_sample are the keys of the
\* label file, each of them once and in that order, and once the add loop
\* has ended there was one add_sample call for each image file of the
\* folder.
C27_OneAddPerImageFile ==
    ing.flow = "image_upload2" =>
        /\ Keys(ing.samplePathDict) = Keys(ing.classDict)
        /\ \A j, k \in DOMAIN ing.classDict :
              ing.classDict[j].key = ing.classDict[k].key => j = k
        /\ ing.adds <= Len(ing.classDict)
        /\ ing.commits > 0 =>
              /\ ing.adds = Len(ing.classDict)
              /\ ing.adds = Cardinality(ImageFiles(ing.folder))

=============================================================================
